---------------------------- MODULE Spec2Model ----------------------------
(***************************************************************************)
(* Model of the ANI regulations pipeline: the rule-driven validator        *)
(* (src/src/validation.py) and the deduplicating write stage               *)
(* (src/src/writing.py).                                                   *)
(*                                                                         *)
(* Strings are sequences of one-character strings, so that strip() and the *)
(* "|" concatenation of the unique key are computed character by           *)
(* character.  The SQL NULL / Python None is the one-element sequence Null,*)
(* whose single element is no character.                                   *)
(***************************************************************************)
EXTENDS Integers, Sequences, FiniteSets, TLC

(***************************************************************************)
(* Bounds of the model.                                                    *)
(***************************************************************************)
MaxBatch  == 2     \* longest batch handed to run_writing
MaxStored == 1     \* rows of regulations before the first run
MaxRuns   == 2     \* write-stage runs in one behaviour
OneBatch  == 3     \* longest batch of the single-run specification
OneStored == 1     \* rows of regulations before the single run
MaxRecs   == 1     \* records handed to run_validation
ConcBatch  == 2    \* longest batch of each of two concurrent runs
ConcStored == 1    \* rows of regulations before the concurrent runs

(***************************************************************************)
(* Strings and nulls.                                                      *)
(***************************************************************************)
Null    == <<"NULL">>
NoneStr == <<"N", "o", "n", "e">>
Empty   == <<>>

RECURSIVE LStrip(_)
LStrip(s) == IF s # <<>> /\ Head(s) = " " THEN LStrip(Tail(s)) ELSE s

RECURSIVE RStrip(_)
RStrip(s) ==
    IF s # <<>> /\ s[Len(s)] = " " THEN RStrip(SubSeq(s, 1, Len(s) - 1)) ELSE s

\* str.strip()
Strip(s) == RStrip(LStrip(s))

\* Series.astype(str) on an object column: None becomes the text "None".
AsTypeStr(v) == IF v = Null THEN NoneStr ELSE v

\* Series.fillna("")
FillNa(v) == IF v = Null THEN Empty ELSE v

\* COALESCE(external_link, '') of the SELECT
Coalesce(v) == IF v = Null THEN Empty ELSE v

(***************************************************************************)
(* Records of a batch and rows of the store.                               *)
(***************************************************************************)
ENTITY_VALUE == "Agencia Nacional de Infraestructura"
OtherEntity  == "Otra entidad"
COMPONENT_ID == 7

Rec(t, c, l, e) == [title |-> t, created_at |-> c, external_link |-> l, entity |-> e]

\* The records a batch is drawn from: two spellings of one regulation, a
\* second regulation, the same triple under another entity, a record with
\* every key field null, and two records whose fields contain "|".
Records ==
    { Rec(<<"a">>, <<"1">>, Null, ENTITY_VALUE),
      Rec(<<" ", "a">>, <<"1">>, Empty, ENTITY_VALUE),
      Rec(<<"b">>, <<"1">>, <<"x">>, ENTITY_VALUE),
      Rec(<<"a">>, <<"1">>, Null, OtherEntity),
      Rec(Null, Null, Null, ENTITY_VALUE),
      Rec(<<"a", "|", "b">>, <<"1">>, Empty, ENTITY_VALUE),
      Rec(<<"a">>, <<"b", "|", "1">>, Empty, ENTITY_VALUE) }

SeqsUpTo(S, n) == UNION { [1..k -> S] : k \in 0..n }

Batches == SeqsUpTo(Records, MaxBatch)

OneBatches == SeqsUpTo(Records, OneBatch)

Triple(r) == <<r.title, r.created_at, r.external_link>>

Procs   == {1, 2}
SeqRuns == {1}


Min(a, b) == IF a < b THEN a ELSE b

Map(s, F(_)) == [i \in 1..Len(s) |-> F(s[i])]

(***************************************************************************)
(* State.  The store: the committed rows of regulations and of             *)
(* regulations_component and the identifier sequence of regulations.  Per  *)
(* run of run_writing: its position, its connection and its locals.        *)
(***************************************************************************)
VARIABLES
    regs,         \* committed rows of table regulations, in insertion order
    comps,        \* committed rows of table regulations_component
    nextId,       \* next value of the identifier sequence of regulations
    pc,           \* position of each run
    conn,         \* db_manager.connection of each run: "none", "open", "closed"
    records,      \* argument of run_writing
    db_df,        \* insert_new_records: rows read from the store
    entity_df,    \* insert_new_records: normalized rows of the entity
    new_records,  \* insert_new_records: rows handed to bulk_insert
    total_rows,   \* insert_new_records: count returned by bulk_insert
    new_ids,      \* insert_new_records: identifiers read back
    inserted,     \* the identifiers of the rows the run's bulk insert committed
    exc,          \* the database error a run met, if any
    ret,          \* what insert_new_records gave run_writing
    out,          \* what run_writing gave its caller
    runs,         \* runs started so far
    prev,         \* the batch of the last finished run and how it ended
    rules,        \* run_validation: the loaded rules
    raw,          \* run_validation: the records received so far
    valid_records,\* run_validation: the records kept so far
    vresult,      \* run_validation: validate_record's result for the last record
    vpc,          \* run_validation: "idle", "load", "loop", "returned" or "raised"
    document      \* load_rules: the rules document at rules_path

wvars == <<regs, comps, nextId, pc, conn, records, db_df, entity_df,
           new_records, total_rows, new_ids, inserted, exc, ret, out, runs, prev>>
vvars == <<rules, raw, valid_records, vresult, vpc, document>>
vars  == <<wvars, vvars>>

(***************************************************************************)
(* DatabaseManager.bulk_insert                                             *)
(***************************************************************************)
NoFault(n) == [kind |-> "none", at |-> n]

\* The error a run met and the step that met it.
Met(fault, step) == [kind |-> fault.kind, at |-> fault.at, step |-> step]

NoError == [kind |-> "none", at |-> 0, step |-> ""]

\* What the database may do to an executemany of n rows followed by commit:
\* accept all, or raise after `at` rows were executed (at = n: the commit
\* raises).  "unique" is an error whose text names a unique/duplicate
\* constraint, "other" any other database error.
Faults(n) ==
    {NoFault(n)} \cup [kind : {"unique", "other"}, at : 0..n]

\* The rows of the open transaction when executemany stops.
executemany(rows, fault) == SubSeq(rows, 1, fault.at)

commit(table, pending) == table \o pending

rollback(table, pending) == table

PartialCommit(table, rows, fault) ==
    [table |-> commit(table, executemany(rows, fault)),
     count |-> IF fault.kind = "none" THEN Len(rows) ELSE 0,
     exc   |-> fault.kind]

bulk_insert(table, rows, fault) ==
    LET pending == executemany(rows, fault)
    IN  IF fault.kind = "none"
        THEN [table |-> commit(table, pending), count |-> Len(rows), exc |-> "none"]
        ELSE [table |-> rollback(table, pending), count |-> 0, exc |-> fault.kind]

(***************************************************************************)
(* insert_regulations_component                                            *)
(***************************************************************************)
ComponentRows(ids) ==
    [i \in 1..Len(ids) |-> [regulations_id |-> ids[i], components_id |-> COMPONENT_ID]]

insert_regulations_component(table, ids, fault) ==
    IF ids = <<>>
    THEN [table |-> table, count |-> 0, msg |-> "sin_ids"]
    ELSE LET r == bulk_insert(table, ComponentRows(ids), fault)
         IN  IF r.exc = "none"
             THEN [table |-> r.table, count |-> r.count, msg |-> "insertados"]
             ELSE [table |-> r.table, count |-> 0, msg |-> "error_componentes"]

(***************************************************************************)
(* insert_new_records: the in-memory steps 1 to 6.                         *)
(***************************************************************************)
\* pd.DataFrame(records): the rows with their index labels.
DataFrame(recs) ==
    [i \in 1..Len(recs) |->
        [idx |-> i, title |-> recs[i].title, created_at |-> recs[i].created_at,
         external_link |-> recs[i].external_link, entity |-> recs[i].entity]]

\* Step 1: SELECT title, created_at, entity, COALESCE(external_link, '')
\*         FROM regulations WHERE entity = %s
SelectExisting(table, entity) ==
    LET OfEntity(r) == r.entity = entity
        Project(r)  == [title |-> r.title, created_at |-> r.created_at,
                        entity |-> r.entity,
                        external_link |-> Coalesce(r.external_link)]
    IN  Map(SelectSeq(table, OfEntity), Project)

\* Step 2: df[df["entity"] == entity]
FilterEntity(df, entity) ==
    LET OfEntity(r) == r.entity = entity
    IN  SelectSeq(df, OfEntity)

\* Step 3, the rows read from the store.
NormalizeDbRow(r) ==
    [r EXCEPT !.created_at    = AsTypeStr(@),
              !.external_link = AsTypeStr(FillNa(@)),
              !.title         = Strip(AsTypeStr(@))]

NormalizeDb(df) == Map(df, NormalizeDbRow)

\* Step 3, the rows of the batch.
UnstrippedEntityRow(r) ==
    [r EXCEPT !.created_at    = AsTypeStr(@),
              !.external_link = AsTypeStr(FillNa(@)),
              !.title         = AsTypeStr(@)]

NormalizeEntityRow(r) ==
    [r EXCEPT !.created_at    = AsTypeStr(@),
              !.external_link = AsTypeStr(FillNa(@)),
              !.title         = Strip(AsTypeStr(@))]

NormalizeEntity(df) == Map(df, NormalizeEntityRow)

\* Step 4: title + "|" + created_at + "|" + external_link
unique_key(r) == r.title \o <<"|">> \o r.created_at \o <<"|">> \o r.external_link

existing_keys(db) == { unique_key(db[i]) : i \in 1..Len(db) }

KeepStoredDuplicates(ent, db) == ent

\* Step 4: the rows of the batch that are not flagged is_duplicate.
ProvisionallyNew(ent, db) ==
    IF db = <<>>
    THEN ent
    ELSE LET NotDuplicate(r) == unique_key(r) \notin existing_keys(db)
         IN  SelectSeq(ent, NotDuplicate)

NoDropDuplicates(df) == df

KeepLast(df) ==
    LET Later(i) == \E j \in (i+1)..Len(df) : Triple(df[j]) = Triple(df[i])
        RECURSIVE Walk(_)
        Walk(i) == IF i > Len(df) THEN <<>>
                   ELSE IF Later(i) THEN Walk(i + 1)
                   ELSE <<df[i]>> \o Walk(i + 1)
    IN  Walk(1)

\* Step 5: drop_duplicates(subset=[title, created_at, external_link], keep="first")
RECURSIVE drop_duplicates(_)
drop_duplicates(df) ==
    IF df = <<>>
    THEN <<>>
    ELSE LET n    == Len(df)
             init == SubSeq(df, 1, n - 1)
         IN  IF \E i \in 1..(n - 1) : Triple(df[i]) = Triple(df[n])
             THEN drop_duplicates(init)
             ELSE Append(drop_duplicates(init), df[n])

\* What a column of regulations gives back for a text written to it.  The
\* table's DDL is not among the sources; the columns are taken to hold the
\* text as written, which is what the Identity Key's stability across a
\* round trip through the store asks of them.
StoredText(v) == v

\* Step 7: the rows as the INSERT stores them, with the generated identifier.
InsertedRows(df, first) ==
    [i \in 1..Len(df) |->
        [id |-> first + i - 1, title |-> StoredText(df[i].title),
         created_at |-> StoredText(df[i].created_at),
         external_link |-> StoredText(df[i].external_link),
         entity |-> df[i].entity]]

\* Step 8: SELECT id FROM regulations WHERE entity = %s ORDER BY id DESC LIMIT %s
RECURSIVE SortDesc(_)
SortDesc(S) ==
    IF S = {} THEN <<>>
    ELSE LET m == CHOOSE x \in S : \A y \in S : y <= x
         IN  <<m>> \o SortDesc(S \ {m})

EntityIds(table, entity) ==
    { table[i].id : i \in { j \in 1..Len(table) : table[j].entity = entity } }

LowestIds(table, entity, n) ==
    LET s == SortDesc(EntityIds(table, entity))
    IN  SubSeq(s, Len(s) - Min(n, Len(s)) + 1, Len(s))

SelectNewIds(table, entity, n) ==
    LET s == SortDesc(EntityIds(table, entity))
    IN  SubSeq(s, 1, Min(n, Len(s)))

(***************************************************************************)
(* Results and the two exception handlers of insert_new_records.           *)
(***************************************************************************)
Pending == [kind |-> "none", count |-> 0, msg |-> "", comp |-> ""]

Return(count, msg, comp) ==
    [kind |-> "return", count |-> count, msg |-> msg, comp |-> comp]

Raise(what) == [kind |-> "raise", count |-> 0, msg |-> what, comp |-> ""]

\* Lines 227-232: "duplicate" or "unique" in the error text.
InsertErrorHandler(kind) ==
    IF kind = "unique"
    THEN Return(0, "duplicados_omitidos", "")
    ELSE Raise("RuntimeError")

\* Lines 270-277: the handler around the whole body.
OuterHandler(r) ==
    IF r.kind = "raise" THEN Return(0, "error_procesando", "") ELSE r

\* Lines 247-248: no component link was attempted.
NoComponents == [table |-> <<>>, count |-> 0, msg |-> ""]

ResultCountsComponents(total, comp) == Return(comp.count, "resultado", comp.msg)

\* Lines 257-268: the count of regulations and the message with comp_msg.
Result(total, comp) == Return(total, "resultado", comp.msg)

(***************************************************************************)
(* The store before the first run: up to MaxStored rows, written by        *)
(* earlier runs or by other tools (so not necessarily normalized), no two  *)
(* rows of one entity with the same Identity Key.                          *)
(***************************************************************************)
IdentityKey(r) == Triple(NormalizeDbRow([r EXCEPT !.external_link = Coalesce(@)]))

NoDuplicateRows(table) ==
    \A i, j \in 1..Len(table) :
        (i # j /\ table[i].entity = table[j].entity)
            => IdentityKey(table[i]) # IdentityKey(table[j])

StoredRows(recs) ==
    [i \in 1..Len(recs) |->
        [id |-> i, title |-> recs[i].title, created_at |-> recs[i].created_at,
         external_link |-> recs[i].external_link, entity |-> recs[i].entity]]

InitStores ==
    { StoredRows(b) : b \in { c \in SeqsUpTo(Records, MaxStored) : NoDuplicateRows(c) } }

NoRun == [p \in Procs |-> <<>>]

\* No finished run whose batch is known to be stored.
NoPrev == [records |-> <<>>, ok |-> FALSE]

\* No rules document is read.
NoDocument == [kind |-> "none", fields |-> <<>>]

InitValidationIdle ==
    /\ document = NoDocument
    /\ rules = <<>>
    /\ raw = <<>>
    /\ valid_records = <<>>
    /\ vresult = [kind |-> "none", rec |-> <<>>]
    /\ vpc = "idle"

Init ==
    /\ regs \in InitStores
    /\ comps = <<>>
    /\ nextId = Len(regs) + 1
    /\ pc = [p \in Procs |-> "idle"]
    /\ conn = [p \in Procs |-> "none"]
    /\ records = NoRun
    /\ db_df = NoRun
    /\ entity_df = NoRun
    /\ new_records = NoRun
    /\ total_rows = [p \in Procs |-> 0]
    /\ new_ids = NoRun
    /\ inserted = [p \in Procs |-> {}]
    /\ exc = [p \in Procs |-> NoError]
    /\ ret = [p \in Procs |-> Pending]
    /\ out = [p \in Procs |-> Pending]
    /\ runs = 0
    /\ prev = NoPrev
    /\ InitValidationIdle

(***************************************************************************)
(* run_writing, lines 293-298: the call, and the early return on an empty  *)
(* batch.                                                                  *)
(***************************************************************************)
run_writing(p, batch) ==
    /\ pc[p] \in {"idle", "done"}
    /\ runs' = runs + 1
    /\ conn' = [conn EXCEPT ![p] = "none"]
    /\ IF batch = <<>>
       THEN /\ pc' = [pc EXCEPT ![p] = "done"]
            /\ out' = [out EXCEPT ![p] = Return(0, "", "")]
            /\ prev' = [records |-> batch, ok |-> TRUE]
            /\ UNCHANGED records
       ELSE /\ pc' = [pc EXCEPT ![p] = "connect"]
            /\ out' = [out EXCEPT ![p] = Pending]
            /\ records' = [records EXCEPT ![p] = batch]
            /\ UNCHANGED prev
    /\ UNCHANGED <<regs, comps, nextId, db_df, entity_df, new_records,
                   total_rows, new_ids, inserted, exc, ret, vvars>>

(***************************************************************************)
(* DatabaseManager.connect and run_writing lines 300-302.  The connection  *)
(* may fail before a connection object exists, or after it (cursor()).     *)
(***************************************************************************)
ConnectOutcomes == {"ok", "no_connection", "no_cursor"}

connect(p, outcome) ==
    /\ pc[p] = "connect"
    /\ conn' = [conn EXCEPT ![p] = IF outcome = "no_connection" THEN "none" ELSE "open"]
    /\ IF outcome = "ok"
       THEN /\ pc' = [pc EXCEPT ![p] = "fetch"]
            /\ UNCHANGED <<out, prev>>
       ELSE /\ pc' = [pc EXCEPT ![p] = "done"]
            /\ out' = [out EXCEPT ![p] = Raise("RuntimeError")]
            /\ prev' = NoPrev
    /\ records' = [records EXCEPT ![p] = IF outcome = "ok" THEN @ ELSE <<>>]
    /\ UNCHANGED <<regs, comps, nextId, db_df, entity_df, new_records,
                   total_rows, new_ids, inserted, exc, ret, runs, vvars>>

(***************************************************************************)
(* insert_new_records, steps 1 to 6: read the rows of the entity, then     *)
(* filter, normalize and resolve duplicates in memory.                     *)
(***************************************************************************)
ResolveDuplicates(ent, db) == drop_duplicates(ProvisionallyNew(ent, db))

fetch_and_resolve(p, fault) ==
    /\ pc[p] = "fetch"
    /\ IF fault
       THEN /\ exc' = [exc EXCEPT ![p] = [kind |-> "other", at |-> 0, step |-> "fetch"]]
            /\ ret' = [ret EXCEPT ![p] = OuterHandler(Raise("DatabaseError"))]
            /\ pc' = [pc EXCEPT ![p] = "close"]
            /\ UNCHANGED <<db_df, entity_df, new_records>>
       ELSE LET existing == SelectExisting(regs, ENTITY_VALUE)
                selected == FilterEntity(DataFrame(records[p]), ENTITY_VALUE)
                db       == NormalizeDb(existing)
                ent      == NormalizeEntity(selected)
                new      == ResolveDuplicates(ent, db)
            IN  /\ UNCHANGED exc
                /\ IF selected = <<>>
                   THEN /\ db_df' = [db_df EXCEPT ![p] = existing]
                        /\ ret' = [ret EXCEPT ![p] = Return(0, "sin_registros", "")]
                        /\ pc' = [pc EXCEPT ![p] = "close"]
                        /\ UNCHANGED <<entity_df, new_records>>
                   ELSE /\ db_df' = [db_df EXCEPT ![p] = db]
                        /\ entity_df' = [entity_df EXCEPT ![p] = ent]
                        /\ new_records' = [new_records EXCEPT ![p] = new]
                        /\ IF new = <<>>
                           THEN /\ ret' = [ret EXCEPT ![p] = Return(0, "sin_nuevos", "")]
                                /\ pc' = [pc EXCEPT ![p] = "close"]
                           ELSE /\ ret' = ret
                                /\ pc' = [pc EXCEPT ![p] = "bulk"]
    /\ UNCHANGED <<regs, comps, nextId, conn, records, total_rows, new_ids,
                   inserted, out, runs, prev, vvars>>

(***************************************************************************)
(* insert_new_records, step 7: the bulk insert of regulations and its      *)
(* exception handler.                                                      *)
(***************************************************************************)
insert_regulations(p, fault) ==
    /\ pc[p] = "bulk"
    /\ LET r == bulk_insert(regs, InsertedRows(new_records[p], nextId), fault)
       IN  /\ regs' = r.table
           /\ nextId' = nextId + fault.at
           /\ inserted' = [inserted EXCEPT ![p] =
                             IF r.exc = "none"
                             THEN { r.table[i].id : i \in (Len(regs) + 1)..Len(r.table) }
                             ELSE {}]
           /\ exc' = [exc EXCEPT ![p] = Met(fault, "bulk")]
           /\ IF r.exc = "none"
              THEN /\ total_rows' = [total_rows EXCEPT ![p] = r.count]
                   /\ IF r.count = 0
                      THEN /\ ret' = [ret EXCEPT ![p] = Return(0, "no_insertados", "")]
                           /\ pc' = [pc EXCEPT ![p] = "close"]
                      ELSE /\ ret' = ret
                           /\ pc' = [pc EXCEPT ![p] = "ids"]
              ELSE /\ ret' = [ret EXCEPT ![p] = OuterHandler(InsertErrorHandler(r.exc))]
                   /\ pc' = [pc EXCEPT ![p] = "close"]
                   /\ UNCHANGED total_rows
    /\ UNCHANGED <<comps, conn, records, db_df, entity_df, new_records, new_ids,
                   out, runs, prev, vvars>>

(***************************************************************************)
(* insert_new_records, step 8: read back the identifiers.                  *)
(***************************************************************************)
select_new_ids(p, fault) ==
    /\ pc[p] = "ids"
    /\ IF fault
       THEN /\ exc' = [exc EXCEPT ![p] = [kind |-> "other", at |-> 0, step |-> "ids"]]
            /\ ret' = [ret EXCEPT ![p] = OuterHandler(Raise("DatabaseError"))]
            /\ pc' = [pc EXCEPT ![p] = "close"]
            /\ UNCHANGED new_ids
       ELSE LET ids == SelectNewIds(regs, ENTITY_VALUE, total_rows[p])
            IN  /\ new_ids' = [new_ids EXCEPT ![p] = ids]
                /\ UNCHANGED exc
                /\ IF ids = <<>>
                   THEN /\ ret' = [ret EXCEPT ![p] = Result(total_rows[p], NoComponents)]
                        /\ pc' = [pc EXCEPT ![p] = "close"]
                   ELSE /\ ret' = ret
                        /\ pc' = [pc EXCEPT ![p] = "comp"]
    /\ UNCHANGED <<regs, comps, nextId, conn, records, db_df, entity_df,
                   new_records, total_rows, inserted, out, runs, prev, vvars>>

(***************************************************************************)
(* insert_new_records, steps 9 and 10: the component links and the result. *)
(***************************************************************************)
insert_components(p, fault) ==
    /\ pc[p] = "comp"
    /\ LET r == insert_regulations_component(comps, new_ids[p], fault)
       IN  /\ comps' = r.table
           /\ exc' = [exc EXCEPT ![p] = Met(fault, "comp")]
           /\ ret' = [ret EXCEPT ![p] = Result(total_rows[p], r)]
           /\ pc' = [pc EXCEPT ![p] = "close"]
    /\ UNCHANGED <<regs, nextId, conn, records, db_df, entity_df, new_records,
                   total_rows, new_ids, inserted, out, runs, prev, vvars>>

(***************************************************************************)
(* run_writing, lines 304-309: the finally clause closes the connection,   *)
(* then the count is returned (or the exception propagates).               *)
(***************************************************************************)
OkMessages == {"sin_registros", "sin_nuevos", "resultado"}

close(p) ==
    /\ pc[p] = "close"
    /\ conn' = [conn EXCEPT ![p] = "closed"]
    /\ out' = [out EXCEPT ![p] =
                 IF ret[p].kind = "raise" THEN ret[p] ELSE Return(ret[p].count, "", "")]
    /\ prev' = IF ret[p].kind = "return" /\ ret[p].msg \in OkMessages
               THEN [records |-> records[p], ok |-> TRUE]
               ELSE NoPrev
    /\ pc' = [pc EXCEPT ![p] = "done"]
    /\ records' = [records EXCEPT ![p] = <<>>]
    /\ db_df' = [db_df EXCEPT ![p] = <<>>]
    /\ entity_df' = [entity_df EXCEPT ![p] = <<>>]
    /\ new_records' = [new_records EXCEPT ![p] = <<>>]
    /\ total_rows' = [total_rows EXCEPT ![p] = 0]
    /\ new_ids' = [new_ids EXCEPT ![p] = <<>>]
    /\ inserted' = [inserted EXCEPT ![p] = {}]
    /\ exc' = [exc EXCEPT ![p] = NoError]
    /\ ret' = [ret EXCEPT ![p] = Pending]
    /\ UNCHANGED <<regs, comps, nextId, runs, vvars>>

(***************************************************************************)
(* Sequential runs of the write stage.                                     *)
(***************************************************************************)
Step(p) ==
    \/ \E o \in ConnectOutcomes : connect(p, o)
    \/ \E f \in BOOLEAN : fetch_and_resolve(p, f)
    \/ \E f \in Faults(Len(new_records[p])) : insert_regulations(p, f)
    \/ \E f \in BOOLEAN : select_new_ids(p, f)
    \/ \E f \in Faults(Len(new_ids[p])) : insert_components(p, f)
    \/ close(p)

Next ==
    \/ \E p \in SeqRuns, b \in Batches : runs < MaxRuns /\ run_writing(p, b)
    \/ \E p \in SeqRuns : Step(p)

Spec == Init /\ [][Next]_vars

(***************************************************************************)
(* One run of the write stage on a longer batch.                           *)
(***************************************************************************)
OneStores ==
    { StoredRows(b) : b \in { c \in SeqsUpTo(Records, OneStored) : NoDuplicateRows(c) } }

InitOne ==
    /\ regs \in OneStores
    /\ comps = <<>>
    /\ nextId = Len(regs) + 1
    /\ pc = [p \in Procs |-> "idle"]
    /\ conn = [p \in Procs |-> "none"]
    /\ records = NoRun
    /\ db_df = NoRun
    /\ entity_df = NoRun
    /\ new_records = NoRun
    /\ total_rows = [p \in Procs |-> 0]
    /\ new_ids = NoRun
    /\ inserted = [p \in Procs |-> {}]
    /\ exc = [p \in Procs |-> NoError]
    /\ ret = [p \in Procs |-> Pending]
    /\ out = [p \in Procs |-> Pending]
    /\ runs = 0
    /\ prev = NoPrev
    /\ InitValidationIdle

NextOne ==
    \/ \E p \in SeqRuns, b \in OneBatches : runs < 1 /\ run_writing(p, b)
    \/ \E p \in SeqRuns : Step(p)

SpecOne == InitOne /\ [][NextOne]_vars

(***************************************************************************)
(* Two runs of the write stage at the same time (two runs of the DAG, each *)
(* with its own DatabaseManager and connection), one run_writing each.     *)
(* The steps of the two runs interleave at the statements that reach the   *)
(* database; a run sees the rows the other has committed.                  *)
(***************************************************************************)
ConcRecords ==
    { Rec(<<"a">>, <<"1">>, Null, ENTITY_VALUE),
      Rec(<<" ", "a">>, <<"1">>, Empty, ENTITY_VALUE),
      Rec(<<"b">>, <<"1">>, <<"x">>, ENTITY_VALUE) }

ConcBatches == SeqsUpTo(ConcRecords, ConcBatch)

ConcStores ==
    { StoredRows(b) : b \in { c \in SeqsUpTo(ConcRecords, ConcStored) : NoDuplicateRows(c) } }

InitConc ==
    /\ regs \in ConcStores
    /\ comps = <<>>
    /\ nextId = Len(regs) + 1
    /\ pc = [p \in Procs |-> "idle"]
    /\ conn = [p \in Procs |-> "none"]
    /\ records = NoRun
    /\ db_df = NoRun
    /\ entity_df = NoRun
    /\ new_records = NoRun
    /\ total_rows = [p \in Procs |-> 0]
    /\ new_ids = NoRun
    /\ inserted = [p \in Procs |-> {}]
    /\ exc = [p \in Procs |-> NoError]
    /\ ret = [p \in Procs |-> Pending]
    /\ out = [p \in Procs |-> Pending]
    /\ runs = 0
    /\ prev = NoPrev
    /\ InitValidationIdle

NextConc ==
    \/ \E p \in Procs, b \in ConcBatches : pc[p] = "idle" /\ run_writing(p, b)
    \/ \E p \in Procs : Step(p)

SpecConc == InitConc /\ [][NextConc]_vars

(***************************************************************************)
(* Properties of the write stage.                                          *)
(***************************************************************************)
Range(s) == { s[i] : i \in 1..Len(s) }

Triples(df) == { Triple(df[i]) : i \in 1..Len(df) }

\* The last n rows of a table.
LastRows(table, n) == SubSeq(table, Len(table) - n + 1, Len(table))

\* C1: after any sequence of sequential write-stage runs on a store that
\* began without two rows of one entity sharing an Identity Key, regulations
\* never holds two rows of one entity with the same Identity Key.
C1_NoDuplicateIdentityKeys == NoDuplicateRows(regs)

\* C1 witness: a second run has committed one row of a two-row batch whose
\* other row was dropped as a copy of a stored row, the store already
\* holding a row committed by the first run.
C1_Witness ==
    /\ runs = 2
    /\ pc[1] = "ids"
    /\ Len(entity_df[1]) = 2
    /\ Len(new_records[1]) = 1
    /\ \E i \in 1..2 : Triple(entity_df[1][i]) \in Triples(db_df[1])
    /\ Len(regs) >= 3

\* The key of the batch record a row of new_records came from, as computed
\* in memory before the row was stored.
KeyInMemory(p, row) == Triple(NormalizeEntityRow(DataFrame(records[p])[row.idx]))

C3_BulkInsertAtomic ==
    [][\A p \in Procs :
          pc[p] = "bulk" /\ pc'[p] # "bulk"
             => IF exc'[p].kind = "none"
                THEN regs' = regs \o InsertedRows(new_records[p], nextId)
                ELSE regs' = regs]_vars

\* C3 witness: a bulk insert of three rows has failed after two of them
\* were executed.
C3_Witness ==
    /\ pc[1] = "close"
    /\ exc[1].step = "bulk"
    /\ exc[1].kind = "other"
    /\ Len(new_records[1]) = 3
    /\ exc[1].at = 2

\* C4 (as claimed): when the bulk insert of regulations fails, a unique /
\* duplicate violation makes insert_new_records return zero rows with a
\* message, and any other database error is raised to the caller.
C4_OtherErrorsAreRaised ==
    \A p \in Procs :
        (pc[p] = "close" /\ exc[p].step = "bulk" /\ exc[p].kind # "none")
            => IF exc[p].kind = "unique"
               THEN ret[p] = Return(0, "duplicados_omitidos", "")
               ELSE ret[p].kind = "raise"

\* C7: after duplicate resolution no two surviving records share an
\* Identity Key and no surviving record has the Identity Key of a stored
\* record, whichever of the two is stored and in whichever order they come.
C7_AtMostOneSurvives ==
    \A p \in Procs :
        LET new == new_records[p]
        IN  /\ \A i, j \in 1..Len(new) : i # j => Triple(new[i]) # Triple(new[j])
            /\ entity_df[p] # <<>>
                  => \A i \in 1..Len(new) : Triple(new[i]) \notin Triples(db_df[p])

\* C7 witness: the store holds a record, the batch holds two records with
\* that Identity Key and a third one, and only the third survives.
C7_Witness ==
    /\ pc[1] = "bulk"
    /\ Len(db_df[1]) = 1
    /\ Len(entity_df[1]) = 3
    /\ Len(new_records[1]) = 1
    /\ \E i, j \in 1..3 :
          /\ i # j
          /\ Triple(entity_df[1][i]) = Triple(entity_df[1][j])
          /\ Triple(entity_df[1][i]) \in Triples(db_df[1])

Committed(p) ==
    LET n == Len(new_records[p])
    IN  /\ Len(regs) >= n
        /\ \A i \in 1..n : Triple(LastRows(regs, n)[i]) = Triple(new_records[p][i])

\* C9: when the insertion of the component links fails after the bulk
\* insert of N regulations succeeded, the N rows stay committed and
\* insert_new_records returns N with a message that reports the failure.
C9_LinkFailureKeepsRegulations ==
    \A p \in Procs :
        (pc[p] = "close" /\ exc[p].step = "comp" /\ exc[p].kind # "none")
            => /\ Committed(p)
               /\ ret[p] = Return(Len(new_records[p]), "resultado", "error_componentes")

\* C9 witness: the link insertion for two committed regulations failed
\* after one link was executed.
C9_Witness ==
    /\ pc[1] = "close"
    /\ exc[1].step = "comp"
    /\ exc[1].kind = "other"
    /\ exc[1].at = 1
    /\ Len(new_records[1]) = 2
    /\ comps = <<>>

\* C10: when the bulk insert of N > 0 regulations and the link insertion
\* both succeed, the run adds exactly N component links: one for the
\* identifier of each row it inserted, each with components_id = 7.
C10_OneLinkPerInsertedRow ==
    [][\A p \in Procs :
          (pc[p] = "comp" /\ pc'[p] = "close" /\ ret'[p].comp = "insertados")
             => LET n     == total_rows[p]
                    mine  == { LastRows(regs, n)[i].id : i \in 1..n }
                    added == SubSeq(comps', Len(comps) + 1, Len(comps'))
                IN  /\ n = Len(new_records[p])
                    /\ n > 0
                    /\ SubSeq(comps', 1, Len(comps)) = comps
                    /\ Len(added) = n
                    /\ { added[i].regulations_id : i \in 1..n } = mine
                    /\ \A i \in 1..n : added[i].components_id = 7]_vars

\* C10 witness: two regulations were inserted next to a stored one of the
\* same entity, and two links were created.
C10_Witness ==
    /\ pc[1] = "close"
    /\ ret[1].comp = "insertados"
    /\ total_rows[1] = 2
    /\ Len(regs) = 3
    /\ regs[1].entity = ENTITY_VALUE
    /\ Len(comps) = 2

\* C11 (as claimed): on every exit of run_writing, by return or by
\* exception, no connection that was opened is left open, also when
\* connect() fails after the connection object was created.
C11_ConnectionClosedOnExit ==
    \A p \in Procs : pc[p] = "done" => conn[p] # "open"

\* A null field of the source row is the empty string in the normalized row.
NullsAreEmpty(src, row) ==
    /\ src.title = Null => row.title = Empty
    /\ src.created_at = Null => row.created_at = Empty
    /\ src.external_link = Null => row.external_link = Empty

\* C12 (as claimed): normalization maps a null title, a null created_at and
\* a null external_link each to the empty string, for the records of the
\* batch and for the stored rows alike, and a record with a null component
\* is still compared with the stored rows and with the rest of the batch.
C12_NullNormalizesToEmpty ==
    \A p \in Procs :
        (pc[p] = "bulk" /\ entity_df[p] # <<>>) =>
            LET ent    == entity_df[p]
                new    == new_records[p]
                stored == FilterEntity(regs, ENTITY_VALUE)
                HasNull(r) == Null \in {DataFrame(records[p])[r.idx].title,
                                        DataFrame(records[p])[r.idx].created_at,
                                        DataFrame(records[p])[r.idx].external_link}
            IN  /\ \A i \in 1..Len(ent) :
                      NullsAreEmpty(DataFrame(records[p])[ent[i].idx], ent[i])
                /\ Len(db_df[p]) = Len(stored)
                /\ \A i \in 1..Len(stored) : NullsAreEmpty(stored[i], db_df[p][i])
                /\ \A i \in 1..Len(new) :
                      HasNull(new[i]) =>
                          /\ Triple(new[i]) \notin Triples(db_df[p])
                          /\ \A j \in 1..Len(new) :
                                j # i => Triple(new[j]) # Triple(new[i])

\* The links of table comps that refer to the row with identifier id.
LinksOf(table, id) == { i \in 1..Len(table) : table[i].regulations_id = id }

\* C15 (as claimed): when two runs for the same entity interleave, every
\* component link a run creates refers to a row that run's bulk insert
\* committed, and every row it committed has exactly one link once its
\* links are inserted.
C15_LinksReferToOwnRows ==
    [][\A p \in Procs :
          (pc[p] = "comp" /\ pc'[p] = "close" /\ ret'[p].comp = "insertados")
             => LET added == SubSeq(comps', Len(comps) + 1, Len(comps'))
                IN  /\ \A i \in 1..Len(added) : added[i].regulations_id \in inserted[p]
                    /\ \A id \in inserted[p] : Cardinality(LinksOf(comps', id)) = 1]_vars

\* C16 (as claimed): when two runs for the same entity interleave with
\* batches that share a record not yet stored, regulations never holds two
\* rows of the entity with the same Identity Key.
C16_NoDuplicatesUnderInterleaving ==
    \A i, j \in 1..Len(regs) :
        (i < j /\ regs[i].entity = ENTITY_VALUE /\ regs[j].entity = ENTITY_VALUE)
            => IdentityKey(regs[i]) # IdentityKey(regs[j])

\* C17 (as claimed): the count insert_new_records returns equals the number
\* of regulations rows the call committed, on every path: success, no new
\* records, a failed bulk insert, and a failure of the identifier retrieval
\* or of the link insertion after the bulk insert has committed.
C17_CountEqualsCommitted ==
    \A p \in Procs :
        pc[p] = "close"
           => /\ ret[p].kind = "return"
              /\ inserted[p] \subseteq EntityIds(regs, ENTITY_VALUE)
              /\ ret[p].count = Cardinality(inserted[p])

\* C18 (as claimed): a record of the batch is dropped as already stored
\* only if a stored row of the entity has the same normalized title,
\* created_at and external_link, component by component, also when the
\* components contain "|": a record that is not handed to the bulk insert
\* and is not a copy of an earlier record of the batch has the triple of a
\* stored row.
C18_DroppedOnlyIfTripleStored ==
    \A p \in Procs :
        entity_df[p] # <<>> =>
            LET ent  == entity_df[p]
                kept == { new_records[p][i].idx : i \in 1..Len(new_records[p]) }
            IN  \A i \in 1..Len(ent) :
                    (/\ ent[i].idx \notin kept
                     /\ ~ \E j \in 1..(i - 1) : Triple(ent[j]) = Triple(ent[i]))
                        => Triple(ent[i]) \in Triples(db_df[p])

(***************************************************************************)
(* The validator (src/src/validation.py).                                  *)
(*                                                                         *)
(* A Python value is a record: its type t, its number n (an int, the       *)
(* tenths of a float, 0 or 1 for a bool) and its text s.  "absent" is a    *)
(* key the record does not have, "none" is None, "inf" the float infinity. *)
(***************************************************************************)
Val(t, n, s) == [t |-> t, n |-> n, s |-> s]

VAbsent     == Val("absent", 0, <<>>)
VNone       == Val("none", 0, <<>>)
VInf        == Val("inf", 0, <<>>)
VStr(s)     == Val("str", 0, s)
VInt(n)     == Val("int", n, <<>>)
VFloat(n)   == Val("float", n, <<>>)
VBool(b)    == Val("bool", IF b THEN 1 ELSE 0, <<>>)

DigitChars == <<"0", "1", "2", "3", "4", "5", "6", "7", "8", "9">>

DigitVal(c) == (CHOOSE d \in 1..Len(DigitChars) : DigitChars[d] = c) - 1

IsDigits(s) ==
    /\ s # <<>>
    /\ \A i \in 1..Len(s) : \E d \in 1..Len(DigitChars) : DigitChars[d] = s[i]

RECURSIVE DigitsToInt(_)
DigitsToInt(s) ==
    IF s = <<>> THEN 0
    ELSE DigitsToInt(SubSeq(s, 1, Len(s) - 1)) * Len(DigitChars) + DigitVal(s[Len(s)])

RECURSIVE NatToStr(_)
NatToStr(n) ==
    IF n < Len(DigitChars) THEN <<DigitChars[n + 1]>>
    ELSE NatToStr(n \div Len(DigitChars)) \o <<DigitChars[(n % Len(DigitChars)) + 1]>>

IntToStr(n) == IF n < 0 THEN <<"-">> \o NatToStr(-n) ELSE NatToStr(n)

\* str(float), for a float given in tenths
FloatToStr(n) ==
    LET a == IF n < 0 THEN -n ELSE n
    IN  (IF n < 0 THEN <<"-">> ELSE <<>>)
           \o NatToStr(a \div Len(DigitChars)) \o <<".">> \o NatToStr(a % Len(DigitChars))

Signed(s)   == s # <<>> /\ Head(s) \in {"+", "-"}
Unsigned(s) == IF Signed(s) THEN Tail(s) ELSE s
SignOf(s)   == IF s # <<>> /\ Head(s) = "-" THEN -1 ELSE 1

\* int(str): surrounding blanks, an optional sign, decimal digits.
ParseInt(s) ==
    LET t == Strip(s)
        u == Unsigned(t)
    IN  IF IsDigits(u)
        THEN [ok |-> TRUE, v |-> VInt(SignOf(t) * DigitsToInt(u))]
        ELSE [ok |-> FALSE, v |-> VNone]

NotANumber == [ok |-> FALSE, v |-> VNone]

Dots(u) == { i \in 1..Len(u) : u[i] = "." }

\* The digits before and after the "." of a float literal.
FloatFromParts(ip, fp, sign) ==
    IF /\ ip \o fp # <<>>
       /\ ip = <<>> \/ IsDigits(ip)
       /\ fp = <<>> \/ IsDigits(fp)
    THEN [ok |-> TRUE,
          v  |-> VFloat(sign * (DigitsToInt(ip) * Len(DigitChars)
                                  + DigitsToInt(SubSeq(fp, 1, Min(1, Len(fp))))))]
    ELSE NotANumber

SplitAtDot(u, k, sign) ==
    FloatFromParts(SubSeq(u, 1, k - 1), SubSeq(u, k + 1, Len(u)), sign)

ParseUnsignedFloat(u, sign) ==
    IF u = <<"i", "n", "f">>
    THEN [ok |-> TRUE, v |-> VInf]
    ELSE IF Dots(u) = {}
    THEN FloatFromParts(u, <<>>, sign)
    ELSE IF Cardinality(Dots(u)) = 1
    THEN SplitAtDot(u, CHOOSE i \in Dots(u) : TRUE, sign)
    ELSE NotANumber

ParseSignedFloat(t) == ParseUnsignedFloat(Unsigned(t), SignOf(t))

\* float(str): surrounding blanks, an optional sign, then "inf" or digits
\* with at most one "." (fractions of one digit: the model's floats are
\* tenths).
ParseFloat(s) == ParseSignedFloat(Strip(s))

\* _TYPE_MAP: the type names a rule may use.
_TYPE_MAP == {"str", "int", "float", "bool"}

\* isinstance(value, _TYPE_MAP[type]); a bool is an int.
IsInstance(v, type) ==
    CASE type = "str"   -> v.t = "str"
      [] type = "int"   -> v.t \in {"int", "bool"}
      [] type = "float" -> v.t \in {"float", "inf"}
      [] type = "bool"  -> v.t = "bool"

Converted(v)   == [st |-> "ok", v |-> v]
ValueError     == [st |-> "error", v |-> VNone]
OverflowError  == [st |-> "raise", v |-> VNone]

\* str(value)
ToStr(v) ==
    CASE v.t = "int"   -> Converted(VStr(IntToStr(v.n)))
      [] v.t = "float" -> Converted(VStr(FloatToStr(v.n)))
      [] v.t = "inf"   -> Converted(VStr(<<"i", "n", "f">>))
      [] v.t = "bool"  -> Converted(VStr(IF v.n = 1 THEN <<"T", "r", "u", "e">>
                                                    ELSE <<"F", "a", "l", "s", "e">>))
      [] OTHER         -> Converted(v)

\* int(value): a string is parsed, a float truncated towards zero; the
\* infinity raises OverflowError, which line 77 does not catch.
ToInt(v) ==
    CASE v.t = "str"   -> LET r == ParseInt(v.s)
                          IN  IF r.ok THEN Converted(r.v) ELSE ValueError
      [] v.t = "float" -> Converted(VInt(IF v.n < 0 THEN -((-v.n) \div Len(DigitChars))
                                                    ELSE v.n \div Len(DigitChars)))
      [] v.t = "inf"   -> OverflowError
      [] OTHER         -> Converted(v)

\* float(value)
ToFloat(v) ==
    CASE v.t = "str"  -> LET r == ParseFloat(v.s)
                         IN  IF r.ok THEN Converted(r.v) ELSE ValueError
      [] v.t = "int"  -> Converted(VFloat(v.n * Len(DigitChars)))
      [] v.t = "bool" -> Converted(VFloat(v.n * Len(DigitChars)))
      [] OTHER        -> Converted(v)

\* bool(value): the truth value; never fails.
ToBool(v) ==
    CASE v.t = "str"   -> Converted(VBool(v.s # <<>>))
      [] v.t = "int"   -> Converted(VBool(v.n # 0))
      [] v.t = "float" -> Converted(VBool(v.n # 0))
      [] v.t = "inf"   -> Converted(VBool(TRUE))
      [] OTHER         -> Converted(v)

\* expected_type(value), line 76
Cast(v, type) ==
    CASE type = "str"   -> ToStr(v)
      [] type = "int"   -> ToInt(v)
      [] type = "float" -> ToFloat(v)
      [] type = "bool"  -> ToBool(v)

\* re.match(regex, value) for a regex without metacharacters: the value
\* begins with the text of the regex.
ReMatch(regex, s) ==
    /\ Len(s) >= Len(regex)
    /\ SubSeq(s, 1, Len(regex)) = regex

(***************************************************************************)
(* _validate_field: st is "valid", "invalid" or "raise" (an exception the  *)
(* function does not catch).                                               *)
(***************************************************************************)
Valid(v)     == [st |-> "valid", v |-> v]
Invalid      == [st |-> "invalid", v |-> VNone]
FieldRaises  == [st |-> "raise", v |-> VNone]

CheckRegex(v, rule) ==
    IF rule.regex # <<>> /\ v.t = "str" /\ ~ReMatch(rule.regex, v.s)
    THEN Invalid
    ELSE Valid(v)

UncastValue(value, rule) ==
    IF value = VNone
    THEN Invalid
    ELSE IF rule.type # "" /\ rule.type \in _TYPE_MAP /\ ~IsInstance(value, rule.type)
    THEN LET c == Cast(value, rule.type)
         IN  CASE c.st = "ok"    -> IF CheckRegex(c.v, rule).st = "valid"
                                    THEN Valid(value) ELSE Invalid
               [] c.st = "error" -> Invalid
               [] c.st = "raise" -> FieldRaises
    ELSE CheckRegex(value, rule)

_validate_field(value, rule) ==
    IF value = VNone
    THEN Invalid
    ELSE IF rule.type # "" /\ rule.type \in _TYPE_MAP /\ ~IsInstance(value, rule.type)
    THEN LET c == Cast(value, rule.type)
         IN  CASE c.st = "ok"    -> CheckRegex(c.v, rule)
               [] c.st = "error" -> Invalid
               [] c.st = "raise" -> FieldRaises
    ELSE CheckRegex(value, rule)

(***************************************************************************)
(* validate_record.  A record maps every field name to a value (VAbsent    *)
(* for a key it lacks); the rules are the (name, rule) pairs in the order  *)
(* of the YAML mapping.                                                    *)
(***************************************************************************)
Kept(rec)  == [kind |-> "kept", rec |-> rec]
Discarded  == [kind |-> "discarded", rec |-> <<>>]
Raised     == [kind |-> "raised", rec |-> <<>>]
NoResult   == [kind |-> "none", rec |-> <<>>]

\* dict.get(field_name)
Get(rec, name) == IF rec[name] = VAbsent THEN VNone ELSE rec[name]

NullInsteadOfDiscard(cleaned, name, rule) ==
    LET r == _validate_field(Get(cleaned, name), rule)
    IN  CASE r.st = "raise"   -> Raised
          [] r.st = "invalid" -> Kept([cleaned EXCEPT ![name] = VNone])
          [] r.st = "valid"   -> Kept([cleaned EXCEPT ![name] = r.v])

KeepInvalidValue(cleaned, name, rule) ==
    LET r == _validate_field(Get(cleaned, name), rule)
    IN  CASE r.st = "raise"   -> Raised
          [] r.st = "invalid" -> IF rule.required THEN Discarded ELSE Kept(cleaned)
          [] r.st = "valid"   -> Kept([cleaned EXCEPT ![name] = r.v])

\* Lines 103-114: one pass of the loop over the rules.
ApplyRule(cleaned, name, rule) ==
    LET r == _validate_field(Get(cleaned, name), rule)
    IN  CASE r.st = "raise"   -> Raised
          [] r.st = "invalid" -> IF rule.required
                                 THEN Discarded
                                 ELSE Kept([cleaned EXCEPT ![name] = VNone])
          [] r.st = "valid"   -> Kept([cleaned EXCEPT ![name] = r.v])

RECURSIVE ApplyRules(_, _, _)
ApplyRules(cleaned, rs, k) ==
    IF k > Len(rs)
    THEN Kept(cleaned)
    ELSE LET r == ApplyRule(cleaned, rs[k].name, rs[k].rule)
         IN  IF r.kind = "kept" THEN ApplyRules(r.rec, rs, k + 1) ELSE r

validate_record(record, rs) == ApplyRules(record, rs, 1)

(***************************************************************************)
(* run_validation on records of three fields: title and rtype_id may have  *)
(* a rule, summary never has one.                                          *)
(***************************************************************************)
TitleRules == [type : {"", "str", "int", "float", "bool", "date"},
               required : BOOLEAN, regex : {<<>>, <<"1">>}]

RtypeRules == [type : {"", "int"}, required : BOOLEAN, regex : {<<>>}]

Ruled(name, rule) == [name |-> name, rule |-> rule]

RuleSets ==
    {<<>>}
      \cup { <<Ruled("title", r)>> : r \in TitleRules }
      \cup { <<Ruled("rtype_id", g)>> : g \in RtypeRules }
      \cup { <<Ruled("title", r), Ruled("rtype_id", g)>> : r \in TitleRules, g \in RtypeRules }
      \cup { <<Ruled("rtype_id", g), Ruled("title", r)>> : r \in TitleRules, g \in RtypeRules }

TitleValues ==
    { VAbsent, VNone, VStr(<<>>), VStr(<<"1">>), VStr(<<"a">>), VStr(<<"1", ".", "5">>),
      VInt(1), VFloat(15), VInf, VBool(TRUE) }

RtypeValues == { VNone, VStr(<<"a">>), VStr(<<"1">>) }

SummaryValues == { VAbsent, VStr(<<"a">>) }

RawRecords ==
    { [title |-> a, rtype_id |-> b, summary |-> c] :
         a \in TitleValues, b \in RtypeValues, c \in SummaryValues }

Fields == {"title", "rtype_id", "summary"}

(***************************************************************************)
(* load_rules.  The rules document is the file at rules_path: a file that  *)
(* cannot be opened, a text that is not YAML, or the value yaml.safe_load  *)
(* gives: None for an empty document, a list, a mapping without the key    *)
(* "fields", or a mapping whose "fields" is null, a list, or a mapping of  *)
(* field names to rules.                                                   *)
(***************************************************************************)
Document(kind) == [kind |-> kind, fields |-> <<>>]

FieldsDocument(rs) == [kind |-> "fields", fields |-> rs]

Documents ==
    { Document(k) : k \in {"unreadable", "not_yaml", "empty", "list",
                           "no_fields", "fields_null", "fields_list"} }
      \cup { FieldsDocument(rs) : rs \in RuleSets }

Loaded(rs)      == [st |-> "ok", fields |-> rs]
LoadRaises(e)   == [st |-> e, fields |-> <<>>]

\* Lines 37-42.  open() raises OSError, yaml.safe_load raises YAMLError,
\* config.get raises AttributeError on None or a list and gives {} when the
\* key is missing; len(None) and list.keys() of line 41 raise.
load_rules(doc) ==
    CASE doc.kind = "unreadable"  -> LoadRaises("OSError")
      [] doc.kind = "not_yaml"    -> LoadRaises("YAMLError")
      [] doc.kind = "empty"       -> LoadRaises("AttributeError")
      [] doc.kind = "list"        -> LoadRaises("AttributeError")
      [] doc.kind = "no_fields"   -> Loaded(<<>>)
      [] doc.kind = "fields_null" -> LoadRaises("TypeError")
      [] doc.kind = "fields_list" -> LoadRaises("AttributeError")
      [] doc.kind = "fields"      -> Loaded(doc.fields)

InitWriteIdle ==
    /\ regs = <<>>
    /\ comps = <<>>
    /\ nextId = 1
    /\ pc = [p \in Procs |-> "idle"]
    /\ conn = [p \in Procs |-> "none"]
    /\ records = NoRun
    /\ db_df = NoRun
    /\ entity_df = NoRun
    /\ new_records = NoRun
    /\ total_rows = [p \in Procs |-> 0]
    /\ new_ids = NoRun
    /\ inserted = [p \in Procs |-> {}]
    /\ exc = [p \in Procs |-> NoError]
    /\ ret = [p \in Procs |-> Pending]
    /\ out = [p \in Procs |-> Pending]
    /\ runs = 0
    /\ prev = NoPrev

\* run_validation, lines 133-137: the rules are loaded, nothing is read yet.
InitV ==
    /\ InitWriteIdle
    /\ rules \in RuleSets
    /\ document = FieldsDocument(rules)
    /\ raw = <<>>
    /\ valid_records = <<>>
    /\ vresult = NoResult
    /\ vpc = "loop"

\* Lines 139-144: one pass of the loop over the records.
validate_next(record) ==
    /\ vpc = "loop"
    /\ LET result == validate_record(record, rules)
       IN  /\ raw' = Append(raw, record)
           /\ vresult' = result
           /\ valid_records' = IF result.kind = "kept"
                               THEN Append(valid_records, result.rec)
                               ELSE valid_records
           /\ vpc' = IF result.kind = "raised" THEN "raised" ELSE "loop"
    /\ UNCHANGED <<rules, document, wvars>>

\* Lines 146-150: the records are exhausted and valid_records is returned.
run_validation_return ==
    /\ vpc = "loop"
    /\ vpc' = "returned"
    /\ UNCHANGED <<rules, document, raw, valid_records, vresult, wvars>>

NextV ==
    \/ \E r \in RawRecords : Len(raw) < MaxRecs /\ validate_next(r)
    \/ run_validation_return

SpecV == InitV /\ [][NextV]_vars

(***************************************************************************)
(* run_validation from its first line: the rules are loaded from the       *)
(* document, then the records are validated.                               *)
(***************************************************************************)
InitLoad ==
    /\ InitWriteIdle
    /\ document \in Documents
    /\ rules = <<>>
    /\ raw = <<>>
    /\ valid_records = <<>>
    /\ vresult = NoResult
    /\ vpc = "load"

\* Line 133: rules = load_rules(rules_path); an exception of load_rules
\* leaves run_validation.
run_validation_load ==
    /\ vpc = "load"
    /\ LET r == load_rules(document)
       IN  IF r.st = "ok"
           THEN /\ rules' = r.fields
                /\ vpc' = "loop"
           ELSE /\ rules' = rules
                /\ vpc' = "raised"
    /\ UNCHANGED <<document, raw, valid_records, vresult, wvars>>

NextLoad ==
    \/ run_validation_load
    \/ \E r \in RawRecords : Len(raw) < MaxRecs /\ validate_next(r)
    \/ run_validation_return

SpecLoad == InitLoad /\ [][NextLoad]_vars

(***************************************************************************)
(* Properties of the validator.                                            *)
(***************************************************************************)
\* The record lacks a value for a field whose rule is marked required.
RequiredMissing(rec, rs) ==
    \E k \in 1..Len(rs) : rs[k].rule.required /\ rec[rs[k].name] \in {VAbsent, VNone}

RuleNames(rs) == { rs[k].name : k \in 1..Len(rs) }

RuleOf(rs, name) == rs[CHOOSE k \in 1..Len(rs) : rs[k].name = name].rule

\* What _validate_field says of the record's value for a ruled field.
FieldStatus(rec, rs, name) == _validate_field(Get(rec, name), RuleOf(rs, name)).st

\* The record has an invalid value in a non-required ruled field, no
\* failing required field, and no field whose validation raises.
OnlyOptionalFieldsFail(rec, rs) ==
    /\ \E name \in RuleNames(rs) :
          FieldStatus(rec, rs, name) = "invalid" /\ ~RuleOf(rs, name).required
    /\ \A name \in RuleNames(rs) :
          /\ RuleOf(rs, name).required => FieldStatus(rec, rs, name) = "valid"
          /\ FieldStatus(rec, rs, name) # "raise"

\* The rule asks for a type the value does not have yet.
NeedsCast(v, rule) == rule.type \in _TYPE_MAP /\ ~IsInstance(v, rule.type)

WellFormed(doc) == doc.kind = "fields"

\* C13 (as claimed): when the rules document is unreadable or is not a
\* mapping containing the field definitions (an empty document and one
\* without a fields mapping included), loading fails and run_validation
\* ends before any record is processed or returned.
C13_MalformedRulesAbort ==
    ~WellFormed(document)
       => /\ vpc \in {"load", "raised"}
          /\ raw = <<>>
          /\ valid_records = <<>>

\* The value satisfies the rule of a required field: it is not null, it is
\* of the declared type when the rule declares one of the four types, and
\* when it is a string it matches the rule's pattern.
MeetsRequired(v, rule) ==
    /\ v \notin {VNone, VAbsent}
    /\ rule.type \in _TYPE_MAP => IsInstance(v, rule.type)
    /\ (v.t = "str" /\ rule.regex # <<>>) => ReMatch(rule.regex, v.s)

RequiredEstablished(rec, rs) ==
    \A k \in 1..Len(rs) :
        rs[k].rule.required => MeetsRequired(rec[rs[k].name], rs[k].rule)

=============================================================================
